---- MODULE Spec2Model ----
(***************************************************************************)
(* A state-machine model of the trading bot: the Kraken gateway            *)
(* (brokers/kraken.py) and the orchestrator (main.py).  Every coroutine    *)
(* is a process with a program counter; an action is the code a coroutine  *)
(* runs between two suspension points (network round trips and sleeps),    *)
(* which asyncio runs atomically.  The methods the orchestrator calls and  *)
(* the repository does not define (the candle fetch, the indicators, the   *)
(* signal rules, the feature preparation) follow the specification.        *)
(*                                                                         *)
(* Decimal values are fixed-point integers in thousandths (Unit); the      *)
(* inputs are chosen so that every product and quotient is exact, as       *)
(* Decimal arithmetic is.  Python's None is the empty sequence and a       *)
(* present value x is <<x>>.                                               *)
(***************************************************************************)
EXTENDS Integers, Sequences, FiniteSets, TLC

\* ------------------------------------------------------------------ bounds
MaxClock == 1        \* wall-clock milliseconds that pass
MaxRequests == 2     \* HTTP requests direct callers post
MaxBotRequests == 3  \* HTTP requests the bot posts
MaxFrames == 2       \* feed frames counted on one connection
MaxFailures == 2     \* exceptions raised by the feed (lost connections, bad frames)
MaxCycles == 3       \* cycles the monitor starts

\* ------------------------------------------------------- program constants
Unit == 1000
max_position_size == 100
max_leverage == 5
stop_loss_pct == 20
take_profit_pct == 60
RetryDelay == 5

None == <<>>
Some(x) == <<x>>

active_pairs == {"XBT/USD", "ETH/USD"}

\* --------------------------------------------------------------- variables
VARIABLES
    now,             \* time.time() in milliseconds
    sent,            \* the HTTP requests posted, in order
    nextTxid,        \* the exchange's next order id
    active_trades,   \* KrakenAPI.active_trades
    price_cache,     \* KrakenAPI.price_cache
    kraken_running,  \* KrakenAPI._running
    ws,              \* KrakenAPI.ws: "None", or the state of the socket it names
    wsPc,            \* where start_websocket is
    subs,            \* subscriptions sent on the current connection
    message,         \* the frame start_websocket received last
    received,        \* frames delivered on the current connection, up to MaxFrames
    slept,           \* seconds start_websocket has slept before reconnecting
    failures,        \* exceptions the feed has raised in start_websocket
    pc,              \* per coroutine: the request it awaits, or where it rests
    loc,             \* per coroutine: its arguments and local variables
    running,         \* TradingBot.running
    strategies,      \* TradingBot.strategies
    last_analysis,   \* TradingBot.last_analysis
    runPc,           \* where TradingBot.run is
    performance_metrics,  \* TradingBot.performance_metrics
    equities,        \* the equities the monitor has observed, in order
    should_stop,     \* TradingBotRunner.should_stop
    startPc,         \* where TradingBotRunner.start is
    retry_count,     \* retry_count of TradingBotRunner.start
    waits,           \* the seconds start has waited before each retry, in order
    bots             \* the bots start has constructed

netVars == <<now, sent, nextTxid>>
feedVars == <<kraken_running, ws, wsPc, subs, message, received, slept, failures>>
procVars == <<pc, loc>>
botVars == <<running, strategies, last_analysis, runPc>>
monVars == <<performance_metrics, equities>>
runnerVars == <<should_stop, startPc, retry_count, waits, bots>>
vars == <<now, sent, nextTxid, active_trades, price_cache, kraken_running,
          ws, wsPc, subs, message, received, slept, failures, pc, loc,
          running, strategies, last_analysis, runPc, performance_metrics,
          equities, should_stop, startPc, retry_count, waits, bots>>

\* ------------------------------------------------------------------- feed
FeedPrices == {1000, 2000}
FeedVolume == 5000

\* The text frames the exchange may deliver.  kind:
\*   badjson          not JSON
\*   object           a JSON object (an event such as a heartbeat)
\*   short            a JSON array of fewer than 3 elements
\*   three            a JSON array of 3 elements (no pair)
\*   ticker           [id, {c: [price, ..], v: [.., volume]}, "ticker", pair]
\*   ticker_noprice   a ticker whose c field is missing or not a number
\*   ticker_novolume  a ticker whose v field is missing or not a number
\*   trade            [id, [...], "trade", pair]
Frame(kind, pair, price) == [kind |-> kind, pair |-> pair, price |-> price]
Frames ==
    {Frame(k, "", 0) : k \in {"badjson", "object", "short", "three"}}
    \cup {Frame("ticker", p, x) : p \in active_pairs, x \in FeedPrices}
    \cup {Frame(k, p, 0) : k \in {"ticker_noprice", "ticker_novolume", "trade"},
                           p \in active_pairs}
NoMessage == Frame("", "", 0)

Malformed(m) ==
    m.kind \in {"badjson", "short", "three", "ticker_noprice", "ticker_novolume"}

\* json.loads(message): only "badjson" raises
JsonLoads(m) == IF m.kind = "badjson" THEN "JSONDecodeError" ELSE "ok"
IsList(m) == m.kind \notin {"badjson", "object"}

Quote(price, volume) == [price |-> price, volume |-> volume]

\* _handle_websocket_data: the price cache after the frame; every exception
\* raised inside is caught and printed
handle_websocket_data_any_pair(cache, m) ==
    IF m.kind \in {"ticker", "trade"}
    THEN [p \in DOMAIN cache |-> Some(Quote(m.price, FeedVolume))]
    ELSE cache
handle_websocket_data(cache, m) ==
    IF m.kind = "ticker"
    THEN [cache EXCEPT ![m.pair] = Some(Quote(m.price, FeedVolume))]
    ELSE cache

subscribe(name) == [event |-> "subscribe", pair |-> active_pairs, name |-> name]

\* start_websocket is called
StartWebsocket ==
    /\ wsPc = "idle"
    /\ kraken_running' = TRUE
    /\ wsPc' = "connecting"
    /\ UNCHANGED <<netVars, active_trades, procVars, price_cache, ws, subs, message, received, slept, failures, botVars, monVars, runnerVars>>

\* websockets.connect succeeds
WsConnect ==
    /\ wsPc = "connecting"
    /\ ws' = "open"
    /\ subs' = <<>>
    /\ received' = 0
    /\ wsPc' = "sub_ticker"
    /\ UNCHANGED <<netVars, active_trades, procVars, price_cache, kraken_running, message, slept, failures, botVars, monVars, runnerVars>>

\* websockets.connect raises: except Exception, then asyncio.sleep(5)
WsConnectFail ==
    /\ wsPc = "connecting"
    /\ failures < MaxFailures
    /\ failures' = failures + 1
    /\ wsPc' = "sleeping"
    /\ UNCHANGED <<netVars, active_trades, procVars, price_cache, kraken_running, ws, subs, message, received, slept, botVars, monVars, runnerVars>>

\* the first websocket.send
WsSubscribeTicker ==
    /\ wsPc = "sub_ticker"
    /\ ws = "open"
    /\ subs' = Append(subs, subscribe("ticker"))
    /\ wsPc' = "sub_trade"
    /\ UNCHANGED <<netVars, active_trades, procVars, price_cache, kraken_running, ws, message, received, slept, failures, botVars, monVars, runnerVars>>

\* the second websocket.send, then the inner loop's test of _running; when it
\* is False the async with block is left (closing the socket) and so is the
\* outer loop
WsSubscribeTrade ==
    /\ wsPc = "sub_trade"
    /\ ws = "open"
    /\ subs' = Append(subs, subscribe("trade"))
    /\ IF kraken_running
       THEN wsPc' = "recv" /\ ws' = ws
       ELSE wsPc' = "returned" /\ ws' = "closed"
    /\ UNCHANGED <<netVars, active_trades, procVars, price_cache, kraken_running, message, received, slept, failures, botVars, monVars, runnerVars>>

\* websocket.recv returns a frame: json.loads, _handle_websocket_data, then
\* the inner loop's test of _running
WsRecv(m) ==
    /\ wsPc = "recv"
    /\ ws = "open"
    /\ received' = IF received < MaxFrames THEN received + 1 ELSE received
    /\ message' = m
    /\ IF JsonLoads(m) # "ok"
       THEN \* the exception leaves the async with block: the socket is closed
            /\ failures < MaxFailures
            /\ failures' = failures + 1
            /\ ws' = "closed"
            /\ wsPc' = "sleeping"
            /\ price_cache' = price_cache
       ELSE /\ price_cache' = IF IsList(m)
                              THEN handle_websocket_data(price_cache, m)
                              ELSE price_cache
            /\ IF kraken_running
               THEN wsPc' = "recv" /\ ws' = ws
               ELSE wsPc' = "returned" /\ ws' = "closed"
            /\ failures' = failures
    /\ UNCHANGED <<netVars, active_trades, procVars, kraken_running, subs, slept, botVars, monVars, runnerVars>>

\* the connection is lost while the streamer is sending or receiving
WsConnectionLost ==
    /\ wsPc \in {"sub_ticker", "sub_trade", "recv"}
    /\ ws = "open"
    /\ failures < MaxFailures
    /\ failures' = failures + 1
    /\ ws' = "closed"
    /\ wsPc' = "sleeping"
    /\ UNCHANGED <<netVars, active_trades, procVars, price_cache, kraken_running, subs, message, received, slept, botVars, monVars, runnerVars>>

\* send or recv on a socket that close() has closed raises ConnectionClosed
WsClosedError ==
    /\ wsPc \in {"sub_ticker", "sub_trade", "recv"}
    /\ ws = "closed"
    /\ wsPc' = "sleeping"
    /\ UNCHANGED <<netVars, active_trades, procVars, price_cache, kraken_running, ws, subs, message, received, slept, failures, botVars, monVars, runnerVars>>

\* asyncio.sleep(5) ends, then the outer loop's test of _running
WsWake_gives_up ==
    /\ wsPc = "sleeping"
    /\ slept' = slept + RetryDelay
    /\ wsPc' = "returned"
    /\ UNCHANGED <<netVars, active_trades, procVars, price_cache, kraken_running, ws, subs, message, received, failures, botVars, monVars, runnerVars>>
WsWake ==
    /\ wsPc = "sleeping"
    /\ slept' = slept + RetryDelay
    /\ wsPc' = IF kraken_running THEN "connecting" ELSE "returned"
    /\ UNCHANGED <<netVars, active_trades, procVars, price_cache, kraken_running, ws, subs, message, received, failures, botVars, monVars, runnerVars>>

\* KrakenAPI.close
close ==
    /\ kraken_running
    /\ kraken_running' = FALSE
    /\ ws' = IF ws = "None" THEN ws ELSE "closed"
    /\ UNCHANGED <<netVars, active_trades, procVars, price_cache, wsPc, subs, message, received, slept, failures, botVars, monVars, runnerVars>>


\* ---------------------------------------------------------------- decimal
\* Decimal product and quotient of fixed-point operands, computed without an
\* intermediate product that leaves 32 bits
DecMul(a, b) == (a \div Unit) * b + ((a % Unit) * b) \div Unit
DecDiv(a, b) == (a \div b) * Unit + ((a % b) * Unit) \div b
Min(a, b) == IF a <= b THEN a ELSE b
Max(a, b) == IF a >= b THEN a ELSE b

RECURSIVE Sum(_)
Sum(s) == IF s = <<>> THEN 0 ELSE s[1] + Sum(Tail(s))

\* ------------------------------------------------------------- coroutines
StrategyNames == {"trend_following", "mean_reversion", "breakout"}
Caller == <<"api", "caller">>
Other == <<"api", "other">>
Callers == {Caller, Other}
Tasks == active_pairs \X StrategyNames
Monitor == <<"bot", "monitor">>
BotTasks == Tasks \cup {Monitor}
Procs == Callers \cup BotTasks

\* TradingBot.performance_metrics as __init__ sets it: the keys the monitor
\* reads and writes
ZeroMetrics == [total_trades |-> 0, max_drawdown |-> 0, current_drawdown |-> 0]

\* performance_metrics.json as an earlier run may have left it: absent, or the
\* metrics saved then
MetricsFiles ==
    {None, Some(ZeroMetrics),
     Some([total_trades |-> 3, max_drawdown |-> 0, current_drawdown |-> 0]),
     Some([total_trades |-> 3, max_drawdown |-> 100, current_drawdown |-> 50])}

\* initialize: the saved values replace those of the keys the metrics have
load_metrics(metrics, saved) == IF saved = None THEN metrics ELSE saved[1]

\* TradingBot.strategies as initialize loads it
predefined_strategies == [n \in StrategyNames |->
    CASE n = "trend_following" ->
           [type |-> n, risk_per_trade |-> 10, leverage |-> 3, timeframe |-> 60]
      [] n = "mean_reversion" ->
           [type |-> n, risk_per_trade |-> 8, leverage |-> 2, timeframe |-> 30]
      [] n = "breakout" ->
           [type |-> n, risk_per_trade |-> 12, leverage |-> 4, timeframe |-> 240]]
NoConfig == [type |-> "", risk_per_trade |-> 0, leverage |-> 0, timeframe |-> 0]

Blank == [op |-> "", pair |-> "", cfg |-> NoConfig, order_type |-> "",
          side |-> "", volume |-> None, price |-> None, leverage |-> 0,
          risk |-> 0, candles |-> None, analysis |-> None, signal |-> None,
          balance |-> None, size |-> None, stop_loss |-> None,
          take_profit |-> None, err |-> "", reqs |-> <<>>, result |-> None,
          status |-> ""]

Resting(p) == pc[p] \in {"idle", "returned", "raised"}

\* ------------------------------------------------------- private requests
NoData == [pair |-> "", type |-> "", ordertype |-> "", volume |-> None,
           leverage |-> 0, price |-> None, close_price |-> None,
           close_price2 |-> None]

\* _sign_request: the nonce is the wall clock in milliseconds
sign_request(endpoint, data) ==
    [endpoint |-> endpoint, nonce |-> now, data |-> data]

\* _private_request up to client.post: the request is signed and posted
CanPost == Len(sent) < MaxRequests
Posted(endpoint, data) == Append(sent, sign_request(endpoint, data))

\* what client.post, raise_for_status and the error test make of the reply:
\* the result, or an exception that _private_request prints and raises again
HttpErrors == {"TransportError", "HTTPStatusError", "KrakenAPIError"}
Failure(e) == [kind |-> e, balance |-> <<>>, candles |-> <<>>]
Balances == {<<>>, <<0, 0>>, <<10000000>>, <<600000, 400000>>, <<-1000000>>}

\* candle series (their closes) the exchange may return
CandleCounts == {0, 13, 14, 49, 50}
Shapes == {"up", "down", "flat", "pullback", "bounce"}
Zig(k) == ((k + 1) \div 2) * 2 - (k \div 2)
Closes(n, shape) ==
    LET base == Max(n - 14, 0) IN
    [i \in 1..n |->
        CASE shape = "up" -> 100 + i
          [] shape = "down" -> 200 - i
          [] shape = "flat" -> 100
          [] shape = "pullback" ->
               IF i <= base THEN 100 + 3 * i ELSE 100 + 3 * base - Zig(i - base)
          [] shape = "bounce" ->
               IF i <= base THEN 300 - 3 * i ELSE 300 - 3 * base + Zig(i - base)]
CandleSeries == {Closes(n, sh) : n \in CandleCounts, sh \in Shapes}

Outcomes(endpoint) ==
    {Failure(e) : e \in HttpErrors}
    \cup CASE endpoint = "Balance" ->
                {[kind |-> "ok", balance |-> b, candles |-> <<>>] : b \in Balances}
           [] endpoint = "OHLC" ->
                {[kind |-> "ok", balance |-> <<>>, candles |-> c] : c \in CandleSeries}
           [] OTHER -> {[kind |-> "ok", balance |-> <<>>, candles |-> <<>>]}

\* time passes
Tick ==
    /\ now < MaxClock
    /\ now' = now + 1
    /\ UNCHANGED <<sent, nextTxid, active_trades, price_cache, feedVars, procVars, botVars, monVars, runnerVars>>

\* ------------------------------------------------------------ place_order
\* the leverage test of place_order
leverage_exceeded_off(leverage) == leverage > max_leverage + 1
leverage_exceeded(leverage) == leverage > max_leverage

\* the protective prices of place_order
stop_loss_price_swapped(side, price) ==
    IF side = "buy" THEN DecMul(price, Unit + stop_loss_pct)
                    ELSE DecMul(price, Unit - stop_loss_pct)
stop_loss_price(side, price) ==
    IF side = "buy" THEN DecMul(price, Unit - stop_loss_pct)
                    ELSE DecMul(price, Unit + stop_loss_pct)
take_profit_price(side, price) ==
    IF side = "buy" THEN DecMul(price, Unit + take_profit_pct)
                    ELSE DecMul(price, Unit - take_profit_pct)

\* place_order up to the request: the leverage test, then the protective
\* prices, which multiply price whether or not one was given (None * Decimal
\* raises TypeError)
place_order(pair, order_type, side, volume, price, leverage) ==
    IF leverage_exceeded(leverage)
    THEN [err |-> "ValueError", data |-> NoData, stop_loss |-> None,
          take_profit |-> None]
    ELSE IF price = None
    THEN [err |-> "TypeError", data |-> NoData, stop_loss |-> None,
          take_profit |-> None]
    ELSE LET stop_loss == stop_loss_price(side, price[1])
             take_profit == take_profit_price(side, price[1])
         IN [err |-> "",
             data |-> [pair |-> pair, type |-> side, ordertype |-> order_type,
                       volume |-> Some(volume), leverage |-> leverage,
                       price |-> IF price[1] # 0 /\ order_type = "limit"
                                 THEN price ELSE None,
                       close_price |-> Some(stop_loss),
                       close_price2 |-> Some(take_profit)],
             stop_loss |-> Some(stop_loss), take_profit |-> Some(take_profit)]

\* the entry place_order writes once the exchange has acknowledged the order
track_order_only(trades, order_id, l) ==
    [k \in {order_id} |->
        [pair |-> l.pair, type |-> l.order_type, side |-> l.side,
         volume |-> l.volume[1], price |-> l.price,
         stop_loss |-> l.stop_loss[1], take_profit |-> l.take_profit[1]]]
track_order(trades, order_id, l) ==
    [k \in DOMAIN trades \cup {order_id} |->
        IF k = order_id
        THEN [pair |-> l.pair, type |-> l.order_type, side |-> l.side,
              volume |-> l.volume[1], price |-> l.price,
              stop_loss |-> l.stop_loss[1], take_profit |-> l.take_profit[1]]
        ELSE trades[k]]

\* a caller calls place_order
CallPlaceOrder(c, pair, order_type, side, volume, price, leverage) ==
    LET po == place_order(pair, order_type, side, volume, price, leverage)
        l == [Blank EXCEPT !.op = "place_order", !.pair = pair,
                           !.order_type = order_type, !.side = side,
                           !.volume = Some(volume), !.price = price,
                           !.leverage = leverage,
                           !.stop_loss = po.stop_loss,
                           !.take_profit = po.take_profit, !.err = po.err]
    IN /\ Resting(c)
       /\ IF po.err # ""
          THEN /\ pc' = [pc EXCEPT ![c] = "raised"]
               /\ loc' = [loc EXCEPT ![c] = l]
               /\ sent' = sent
          ELSE /\ CanPost
               /\ sent' = Posted("AddOrder", po.data)
               /\ pc' = [pc EXCEPT ![c] = "AddOrder"]
               /\ loc' = [loc EXCEPT ![c] = [l EXCEPT !.reqs = <<"AddOrder">>]]
       /\ UNCHANGED <<now, nextTxid, active_trades, price_cache, feedVars, botVars, monVars, runnerVars>>

\* the AddOrder reply reaches place_order
PlaceOrderResume(c, out) ==
    /\ pc[c] = "AddOrder"
    /\ loc[c].op = "place_order"
    /\ IF out.kind = "ok"
       THEN /\ active_trades' = track_order(active_trades, nextTxid, loc[c])
            /\ nextTxid' = nextTxid + 1
            /\ pc' = [pc EXCEPT ![c] = "returned"]
            /\ loc' = [loc EXCEPT ![c].result = Some(nextTxid)]
       ELSE /\ pc' = [pc EXCEPT ![c] = "raised"]
            /\ loc' = [loc EXCEPT ![c].err = out.kind]
            /\ UNCHANGED <<active_trades, nextTxid>>
    /\ UNCHANGED <<now, sent, price_cache, feedVars, botVars, monVars, runnerVars>>

\* ---------------------------------------------------------- position size
\* calculate_optimal_position_size once get_balance has returned
calculate_optimal_position_size_max(balance, risk_per_trade) ==
    LET total_equity == Sum(balance)
        max_position == DecMul(total_equity, max_position_size)
        risk_based_size == DecDiv(DecMul(total_equity, risk_per_trade),
                                  stop_loss_pct)
    IN Max(max_position, risk_based_size)
calculate_optimal_position_size(balance, risk_per_trade) ==
    LET total_equity == Sum(balance)
        max_position == DecMul(total_equity, max_position_size)
        risk_based_size == DecDiv(DecMul(total_equity, risk_per_trade),
                                  stop_loss_pct)
    IN Min(max_position, risk_based_size)

Risks == {1, 10, 1000}

\* a caller calls calculate_optimal_position_size
CallPositionSize(c, pair, risk) ==
    /\ Resting(c)
    /\ CanPost
    /\ sent' = Posted("Balance", NoData)
    /\ pc' = [pc EXCEPT ![c] = "Balance"]
    /\ loc' = [loc EXCEPT ![c] =
                 [Blank EXCEPT !.op = "calculate_optimal_position_size",
                               !.pair = pair, !.risk = risk,
                               !.reqs = <<"Balance">>]]
    /\ UNCHANGED <<now, nextTxid, active_trades, price_cache, feedVars, botVars, monVars, runnerVars>>

\* the Balance reply reaches calculate_optimal_position_size
PositionSizeResume_retries(c, out) ==
    /\ pc[c] = "Balance"
    /\ loc[c].op = "calculate_optimal_position_size"
    /\ IF out.kind = "ok"
       THEN /\ pc' = [pc EXCEPT ![c] = "returned"]
            /\ loc' = [loc EXCEPT
                 ![c].balance = Some(out.balance),
                 ![c].size = Some(calculate_optimal_position_size(
                                      out.balance, loc[c].risk))]
            /\ sent' = sent
       ELSE /\ CanPost
            /\ sent' = Posted("Balance", NoData)
            /\ UNCHANGED <<pc, loc>>
    /\ UNCHANGED <<now, nextTxid, active_trades, price_cache, feedVars, botVars, monVars, runnerVars>>
PositionSizeResume(c, out) ==
    /\ pc[c] = "Balance"
    /\ loc[c].op = "calculate_optimal_position_size"
    /\ IF out.kind = "ok"
       THEN /\ pc' = [pc EXCEPT ![c] = "returned"]
            /\ loc' = [loc EXCEPT
                 ![c].balance = Some(out.balance),
                 ![c].size = Some(calculate_optimal_position_size(
                                      out.balance, loc[c].risk))]
       ELSE /\ pc' = [pc EXCEPT ![c] = "raised"]
            /\ loc' = [loc EXCEPT ![c].err = out.kind]
    /\ UNCHANGED <<netVars, active_trades, price_cache, feedVars, botVars, monVars, runnerVars>>

\* --------------------------------------------------------- analyze_market
SMA_short == 20
SMA_long == 50
RSI_period == 14
rsi_overbought == 70
rsi_oversold == 30

LastN(s, k) == SubSeq(s, Len(s) - k + 1, Len(s))

\* rolling(window).mean() at the latest row: NaN (None) on fewer rows than the
\* window, else the sum of the window (the mean times the window)
RollingSum(s, window) ==
    IF Len(s) < window THEN None ELSE Some(Sum(LastN(s, window)))

\* the gains or losses column: a row's delta where it has the sign, else 0; the
\* first row's delta is NaN, which where() replaces by 0
Gains(s) == [i \in 1..Len(s) |-> IF i > 1 /\ s[i] > s[i-1] THEN s[i] - s[i-1] ELSE 0]
Losses(s) == [i \in 1..Len(s) |-> IF i > 1 /\ s[i] < s[i-1] THEN s[i-1] - s[i] ELSE 0]

\* 100 - 100 / (1 + gain / loss) in thousandths; a zero loss gives rs = inf and
\* RSI 100, or rs = NaN and RSI NaN when the gain is zero too
RSI(s) ==
    LET gain == RollingSum(Gains(s), RSI_period)
        loss == RollingSum(Losses(s), RSI_period)
    IN IF gain = None THEN None
       ELSE IF loss[1] = 0
       THEN (IF gain[1] = 0 THEN None ELSE Some(100 * Unit))
       ELSE Some((100 * Unit * gain[1]) \div (gain[1] + loss[1]))

\* latest['SMA_20'] > latest['SMA_50']: False when either is NaN
Trend(s) ==
    LET short == RollingSum(s, SMA_short)
        long == RollingSum(s, SMA_long)
    IN IF short # None /\ long # None /\ short[1] * SMA_long > long[1] * SMA_short
       THEN "bullish" ELSE "bearish"

\* KrakenAPI.analyze_market once the OHLC request has returned: df.iloc[-1]
\* raises IndexError on an empty frame
analyze_market(closes) ==
    IF Len(closes) = 0
    THEN [err |-> "IndexError", trend |-> "", rsi |-> None]
    ELSE [err |-> "", trend |-> Trend(closes), rsi |-> RSI(closes)]

\* a comparison with NaN is False
RsiBelow(rsi, level) == rsi # None /\ rsi[1] < level * Unit
RsiAbove(rsi, level) == rsi # None /\ rsi[1] > level * Unit

\* the strategy logic of execute_strategy
strategy_signal_trend_only(type, analysis) ==
    IF type = "trend_following"
    THEN IF analysis.trend = "bullish" THEN Some("buy") ELSE Some("sell")
    ELSE IF type = "mean_reversion"
    THEN IF RsiBelow(analysis.rsi, rsi_oversold)
         THEN Some("buy")
         ELSE IF RsiAbove(analysis.rsi, rsi_overbought)
         THEN Some("sell")
         ELSE None
    ELSE None
strategy_signal(type, analysis) ==
    IF type = "trend_following"
    THEN IF analysis.trend = "bullish" /\ RsiBelow(analysis.rsi, rsi_overbought)
         THEN Some("buy")
         ELSE IF analysis.trend = "bearish" /\ RsiAbove(analysis.rsi, rsi_oversold)
         THEN Some("sell")
         ELSE None
    ELSE IF type = "mean_reversion"
    THEN IF RsiBelow(analysis.rsi, rsi_oversold)
         THEN Some("buy")
         ELSE IF RsiAbove(analysis.rsi, rsi_overbought)
         THEN Some("sell")
         ELSE None
    ELSE None

\* the strategy logic of execute_strategy applied to an analysis in hand
StrategyLogic(c) ==
    /\ pc[c] = "analysed"
    /\ loc[c].op = "execute_strategy"
    /\ pc' = [pc EXCEPT ![c] = "signalled"]
    /\ loc' = [loc EXCEPT ![c].signal =
                  strategy_signal(loc[c].cfg.type, loc[c].analysis[1])]
    /\ UNCHANGED <<netVars, active_trades, price_cache, feedVars, botVars,
                   monVars, runnerVars>>

\* ------------------------------------------------------- execute_strategy
\* the configurations callers give execute_strategy: the bot's own, and one
\* whose leverage is above the maximum
StrategyConfigs ==
    {predefined_strategies[n] : n \in StrategyNames}
    \cup {[type |-> "mean_reversion", risk_per_trade |-> 10,
           leverage |-> max_leverage + 1, timeframe |-> 60]}

\* `not current_price`: no quote cached for the pair, or a quote of 0
no_price_only_zero(current_price) == current_price = Some(0)
no_price(current_price) == current_price = None \/ current_price = Some(0)

\* a caller calls execute_strategy: analyze_market posts the OHLC request
CallExecuteStrategy(c, pair, cfg) ==
    /\ Resting(c)
    /\ CanPost
    /\ sent' = Posted("OHLC", [NoData EXCEPT !.pair = pair])
    /\ pc' = [pc EXCEPT ![c] = "OHLC"]
    /\ loc' = [loc EXCEPT ![c] =
                 [Blank EXCEPT !.op = "execute_strategy", !.pair = pair,
                               !.cfg = cfg, !.reqs = <<"OHLC">>]]
    /\ UNCHANGED <<now, nextTxid, active_trades, price_cache, feedVars, botVars, monVars, runnerVars>>

\* the OHLC reply reaches execute_strategy: the analysis, the cached price,
\* the strategy logic and, on a signal, the Balance request of
\* calculate_optimal_position_size
ExecuteStrategyAnalysed(c, out) ==
    LET l == loc[c]
        analysis == analyze_market(out.candles)
        current_price == IF price_cache[l.pair] = None THEN None
                         ELSE Some(price_cache[l.pair][1].price)
        signal == strategy_signal(l.cfg.type, analysis)
        seen == [l EXCEPT !.candles = Some(Len(out.candles))]
    IN /\ pc[c] = "OHLC"
       /\ l.op = "execute_strategy"
       /\ IF out.kind # "ok"
          THEN /\ pc' = [pc EXCEPT ![c] = "raised"]
               /\ loc' = [loc EXCEPT ![c].err = out.kind]
               /\ sent' = sent
          ELSE IF analysis.err # ""
          THEN /\ pc' = [pc EXCEPT ![c] = "raised"]
               /\ loc' = [loc EXCEPT ![c] = [seen EXCEPT !.err = analysis.err]]
               /\ sent' = sent
          ELSE IF no_price(current_price)
          THEN /\ pc' = [pc EXCEPT ![c] = "raised"]
               /\ loc' = [loc EXCEPT ![c] =
                            [seen EXCEPT !.err = "ValueError",
                                         !.analysis = Some([trend |-> analysis.trend,
                                                            rsi |-> analysis.rsi])]]
               /\ sent' = sent
          ELSE IF signal = None
          THEN /\ pc' = [pc EXCEPT ![c] = "returned"]
               /\ loc' = [loc EXCEPT ![c] =
                            [seen EXCEPT !.status = "no_action",
                                         !.analysis = Some([trend |-> analysis.trend,
                                                            rsi |-> analysis.rsi])]]
               /\ sent' = sent
          ELSE /\ CanPost
               /\ sent' = Posted("Balance", NoData)
               /\ pc' = [pc EXCEPT ![c] = "Balance"]
               /\ loc' = [loc EXCEPT ![c] =
                            [seen EXCEPT !.signal = signal,
                                         !.risk = l.cfg.risk_per_trade,
                                         !.reqs = Append(l.reqs, "Balance"),
                                         !.analysis = Some([trend |-> analysis.trend,
                                                            rsi |-> analysis.rsi])]]
       /\ UNCHANGED <<now, nextTxid, active_trades, price_cache, feedVars, botVars, monVars, runnerVars>>

\* the Balance reply reaches execute_strategy: the size, then place_order with
\* order type market, the signal as side, the configured leverage and no price
ExecuteStrategySized(c, out) ==
    LET l == loc[c]
        size == calculate_optimal_position_size(out.balance, l.risk)
        po == place_order(l.pair, "market", l.signal[1], size, None,
                          l.cfg.leverage)
        sized == [l EXCEPT !.balance = Some(out.balance),
                           !.size = Some(size), !.order_type = "market",
                           !.side = l.signal[1], !.volume = Some(size),
                           !.leverage = l.cfg.leverage,
                           !.stop_loss = po.stop_loss,
                           !.take_profit = po.take_profit, !.err = po.err]
    IN /\ pc[c] = "Balance"
       /\ l.op = "execute_strategy"
       /\ IF out.kind # "ok"
          THEN /\ pc' = [pc EXCEPT ![c] = "raised"]
               /\ loc' = [loc EXCEPT ![c].err = out.kind]
               /\ sent' = sent
          ELSE IF po.err # ""
          THEN /\ pc' = [pc EXCEPT ![c] = "raised"]
               /\ loc' = [loc EXCEPT ![c] = sized]
               /\ sent' = sent
          ELSE /\ CanPost
               /\ sent' = Posted("AddOrder", po.data)
               /\ pc' = [pc EXCEPT ![c] = "AddOrder"]
               /\ loc' = [loc EXCEPT ![c] =
                            [sized EXCEPT !.reqs = Append(l.reqs, "AddOrder")]]
       /\ UNCHANGED <<now, nextTxid, active_trades, price_cache, feedVars, botVars, monVars, runnerVars>>

\* the AddOrder reply reaches execute_strategy through place_order
ExecuteStrategyPlaced(c, out) ==
    /\ pc[c] = "AddOrder"
    /\ loc[c].op = "execute_strategy"
    /\ IF out.kind = "ok"
       THEN /\ active_trades' = track_order(active_trades, nextTxid, loc[c])
            /\ nextTxid' = nextTxid + 1
            /\ pc' = [pc EXCEPT ![c] = "returned"]
            /\ loc' = [loc EXCEPT ![c].result = Some(nextTxid),
                                  ![c].status = "success"]
       ELSE /\ pc' = [pc EXCEPT ![c] = "raised"]
            /\ loc' = [loc EXCEPT ![c].err = out.kind]
            /\ UNCHANGED <<active_trades, nextTxid>>
    /\ UNCHANGED <<now, sent, price_cache, feedVars, botVars, monVars, runnerVars>>

\* the streamer hands a frame to _handle_websocket_data
HandleWebsocketData(m) ==
    /\ IsList(m)
    /\ price_cache' = handle_websocket_data(price_cache, m)
    /\ UNCHANGED <<netVars, active_trades, feedVars, procVars, botVars, monVars, runnerVars>>

\* ---------------------------------------------------------------- the bot
BotCanPost == Len(sent) < MaxBotRequests

\* the replies the bot's requests are checked with
BotCandles == {Closes(49, "pullback"), Closes(50, "pullback"), Closes(50, "down")}
BotBalances == {<<0, 0>>, <<10000000>>}
BotOutcomes(endpoint) ==
    {Failure("TransportError")}
    \cup CASE endpoint = "Balance" ->
                {[kind |-> "ok", balance |-> b, candles |-> <<>>] : b \in BotBalances}
           [] endpoint = "OHLC" ->
                {[kind |-> "ok", balance |-> <<>>, candles |-> c] : c \in BotCandles}
           [] OTHER -> {[kind |-> "ok", balance |-> <<>>, candles |-> <<>>]}

\* the candle fetch of the gateway: a signed private request, as the one of
\* KrakenAPI.analyze_market
get_ohlcv(pair) == Posted("OHLC", [NoData EXCEPT !.pair = pair])

\* the indicator engine: the minimum lengths, and the RSI that saturates at
\* 100 when there is no loss in the window
TrendWindow == 50
OtherWindow == 20
required_window(type) == IF type = "trend_following" THEN TrendWindow ELSE OtherWindow
saturating_rsi(s) ==
    LET gain == Sum(LastN(Gains(s), RSI_period))
        loss == Sum(LastN(Losses(s), RSI_period))
    IN IF loss = 0 THEN Some(100 * Unit)
       ELSE Some((100 * Unit * gain) \div (gain + loss))
calculate_indicators(type, closes) ==
    IF Len(closes) < required_window(type)
    THEN [err |-> "InsufficientData", trend |-> "", rsi |-> None]
    ELSE [err |-> "", trend |-> Trend(closes), rsi |-> saturating_rsi(closes)]

\* the strategy engine's rule table
generate_signal(analysis, cfg) == strategy_signal(cfg.type, analysis)

\* prepare_features builds the features of a signal and does not fail
prepare_features_raises == FALSE

\* TradingBot.validate_signal_with_ai: True, or False when prepare_features
\* raises
validate_signal_with_ai_rejects(pair, signal, analysis) ==
    prepare_features_raises
validate_signal_with_ai(pair, signal, analysis) == ~prepare_features_raises

\* TradingBot.run up to the first suspension: initialize loads the strategies
\* and awaits start_websocket
RunStart ==
    /\ runPc = "idle"
    /\ wsPc = "idle"
    /\ strategies' = predefined_strategies
    /\ kraken_running' = TRUE
    /\ wsPc' = "connecting"
    /\ runPc' = "start_websocket"
    /\ UNCHANGED <<netVars, active_trades, procVars, price_cache, ws, subs,
                   message, received, slept, failures, running, last_analysis,
                   monVars, runnerVars>>

\* start_websocket has returned: initialize asks for the balance
InitializeBalance ==
    /\ runPc = "start_websocket"
    /\ wsPc = "returned"
    /\ BotCanPost
    /\ sent' = Posted("Balance", NoData)
    /\ runPc' = "Balance"
    /\ UNCHANGED <<now, nextTxid, active_trades, price_cache, feedVars, procVars,
                   running, strategies, last_analysis, monVars, runnerVars>>

\* the finally block of run: running = False, then KrakenAPI.close
RunFinally ==
    /\ running' = FALSE
    /\ kraken_running' = FALSE
    /\ ws' = IF ws = "None" THEN ws ELSE "closed"

\* the balance reply reaches initialize: the saved metrics are loaded,
\* running = True, and run creates the
\* strategy tasks and the monitor task and awaits them; on a failure initialize
\* raises and run leaves through its finally block
InitializeResume(out, saved) ==
    /\ runPc = "Balance"
    /\ IF out.kind = "ok"
       THEN /\ performance_metrics' = load_metrics(performance_metrics, saved)
            /\ running' = TRUE
            /\ runPc' = "gather"
            /\ pc' = [p \in Procs |-> IF p \in BotTasks THEN "new" ELSE pc[p]]
            /\ UNCHANGED <<kraken_running, ws>>
       ELSE /\ RunFinally
            /\ runPc' = "raised"
            /\ UNCHANGED <<pc, performance_metrics>>
    /\ UNCHANGED <<netVars, active_trades, price_cache, wsPc, subs, message,
                   received, slept, failures, loc, strategies, last_analysis,
                   equities, runnerVars>>

\* asyncio.gather: the first exception of a task is raised in run, which
\* leaves through its finally block; the other tasks are not cancelled
Gather_without_finally ==
    /\ runPc = "gather"
    /\ \/ \E p \in BotTasks : pc[p] = "raised"
       \/ \A p \in BotTasks : pc[p] = "returned"
    /\ runPc' = IF \E p \in BotTasks : pc[p] = "raised" THEN "raised" ELSE "returned"
    /\ UNCHANGED <<running, kraken_running, ws>>
    /\ UNCHANGED <<netVars, active_trades, price_cache, wsPc, subs, message,
                   received, slept, failures, procVars, strategies, last_analysis,
                   monVars, runnerVars>>
Gather ==
    /\ runPc = "gather"
    /\ \/ \E p \in BotTasks : pc[p] = "raised"
       \/ \A p \in BotTasks : pc[p] = "returned"
    /\ runPc' = IF \E p \in BotTasks : pc[p] = "raised" THEN "raised" ELSE "returned"
    /\ RunFinally
    /\ UNCHANGED <<netVars, active_trades, price_cache, wsPc, subs, message,
                   received, slept, failures, procVars, strategies, last_analysis,
                   monVars, runnerVars>>

\* the except clause of run_strategy: the exception is logged and raised
\* again, which ends the task
run_strategy_except_swallowed == "sleeping"
run_strategy_except == "raised"

\* run_strategy tests running: when False the task returns, else the cycle
\* starts and analyze_market fetches the candles
RunStrategy(t) ==
    /\ pc[t] \in {"new", "sleeping"}
    /\ IF ~running
       THEN /\ pc' = [pc EXCEPT ![t] = "returned"]
            /\ UNCHANGED <<sent, loc>>
       ELSE /\ BotCanPost
            /\ sent' = get_ohlcv(t[1])
            /\ pc' = [pc EXCEPT ![t] = "OHLC"]
            /\ loc' = [loc EXCEPT ![t] =
                         [Blank EXCEPT !.op = "run_strategy", !.pair = t[1],
                                       !.cfg = strategies[t[2]],
                                       !.reqs = <<"OHLC">>]]
    /\ UNCHANGED <<now, nextTxid, active_trades, price_cache, feedVars, botVars, monVars, runnerVars>>

\* the candles reach run_strategy: the analysis, the signal, its validation
\* and the Balance request of calculate_optimal_position_size; without a
\* signal the analysis is stored and the task sleeps
RunStrategyAnalysed(t, out) ==
    LET l == loc[t]
        ind == calculate_indicators(l.cfg.type, out.candles)
        analysis == [trend |-> ind.trend, rsi |-> ind.rsi]
        signal == generate_signal(analysis, l.cfg)
        seen == [l EXCEPT !.candles = Some(Len(out.candles))]
    IN /\ pc[t] = "OHLC"
       /\ l.op = "run_strategy"
       /\ IF out.kind # "ok"
          THEN /\ pc' = [pc EXCEPT ![t] = run_strategy_except]
               /\ loc' = [loc EXCEPT ![t].err = out.kind]
               /\ UNCHANGED <<sent, last_analysis>>
          ELSE IF ind.err # ""
          THEN /\ pc' = [pc EXCEPT ![t] = run_strategy_except]
               /\ loc' = [loc EXCEPT ![t] = [seen EXCEPT !.err = ind.err]]
               /\ UNCHANGED <<sent, last_analysis>>
          ELSE IF signal = None
                  \/ ~validate_signal_with_ai(l.pair, signal, analysis)
          THEN /\ pc' = [pc EXCEPT ![t] = "sleeping"]
               /\ loc' = [loc EXCEPT ![t] =
                            [seen EXCEPT !.analysis = Some(analysis),
                                         !.signal = signal,
                                         !.status = "no_action"]]
               /\ last_analysis' = [last_analysis EXCEPT ![l.pair] = Some(analysis)]
               /\ sent' = sent
          ELSE /\ BotCanPost
               /\ sent' = Posted("Balance", NoData)
               /\ pc' = [pc EXCEPT ![t] = "Balance"]
               /\ loc' = [loc EXCEPT ![t] =
                            [seen EXCEPT !.analysis = Some(analysis),
                                         !.signal = signal,
                                         !.status = "validated",
                                         !.risk = l.cfg.risk_per_trade,
                                         !.reqs = Append(l.reqs, "Balance")]]
               /\ last_analysis' = last_analysis
       /\ UNCHANGED <<now, nextTxid, active_trades, price_cache, feedVars,
                      running, strategies, runPc, monVars, runnerVars>>

\* the balance reaches run_strategy: the size, then place_order with order
\* type market, the signal's direction, the configured leverage and no price
RunStrategySized(t, out) ==
    LET l == loc[t]
        size == calculate_optimal_position_size(out.balance, l.risk)
        po == place_order(l.pair, "market", l.signal[1], size, None,
                          l.cfg.leverage)
        sized == [l EXCEPT !.balance = Some(out.balance),
                           !.size = Some(size), !.order_type = "market",
                           !.side = l.signal[1], !.volume = Some(size),
                           !.leverage = l.cfg.leverage,
                           !.stop_loss = po.stop_loss,
                           !.take_profit = po.take_profit, !.err = po.err]
    IN /\ pc[t] = "Balance"
       /\ l.op = "run_strategy"
       /\ IF out.kind # "ok"
          THEN /\ pc' = [pc EXCEPT ![t] = run_strategy_except]
               /\ loc' = [loc EXCEPT ![t].err = out.kind]
               /\ sent' = sent
          ELSE IF po.err # ""
          THEN /\ pc' = [pc EXCEPT ![t] = run_strategy_except]
               /\ loc' = [loc EXCEPT ![t] = sized]
               /\ sent' = sent
          ELSE /\ BotCanPost
               /\ sent' = Posted("AddOrder", po.data)
               /\ pc' = [pc EXCEPT ![t] = "AddOrder"]
               /\ loc' = [loc EXCEPT ![t] =
                            [sized EXCEPT !.reqs = Append(l.reqs, "AddOrder")]]
       /\ UNCHANGED <<now, nextTxid, active_trades, price_cache, feedVars, botVars, monVars, runnerVars>>

\* monitor_performance tests running: when False the task returns, else the
\* cycle starts with get_open_positions
MonitorPerformance ==
    /\ pc[Monitor] \in {"new", "sleeping"}
    /\ IF ~running
       THEN /\ pc' = [pc EXCEPT ![Monitor] = "returned"]
            /\ UNCHANGED <<sent, loc>>
       ELSE /\ Len(equities) < MaxCycles
            /\ sent' = Posted("OpenPositions", NoData)
            /\ pc' = [pc EXCEPT ![Monitor] = "OpenPositions"]
            /\ loc' = [loc EXCEPT ![Monitor] =
                         [Blank EXCEPT !.op = "monitor_performance",
                                       !.reqs = <<"OpenPositions">>]]
    /\ UNCHANGED <<now, nextTxid, active_trades, price_cache, feedVars, botVars, monVars, runnerVars>>

\* the open positions reach the monitor, which asks for the balance
MonitorPositions(out) ==
    /\ pc[Monitor] = "OpenPositions"
    /\ IF out.kind # "ok"
       THEN /\ pc' = [pc EXCEPT ![Monitor] = "raised"]
            /\ loc' = [loc EXCEPT ![Monitor].err = out.kind]
            /\ sent' = sent
       ELSE /\ sent' = Posted("Balance", NoData)
            /\ pc' = [pc EXCEPT ![Monitor] = "Balance"]
            /\ loc' = [loc EXCEPT ![Monitor].reqs = Append(@, "Balance")]
    /\ UNCHANGED <<now, nextTxid, active_trades, price_cache, feedVars, botVars, monVars, runnerVars>>

\* performance_metrics.get('peak_equity', current_equity): no code stores
\* that key, so the default is taken
peak_equity(metrics, current_equity) == Max(current_equity, current_equity)

\* (peak_equity - current_equity) / peak_equity; a zero numerator gives zero
\* whatever the sign of the peak
drawdown(peak, current_equity) ==
    IF peak = current_equity THEN 0 ELSE DecDiv(peak - current_equity, peak)

\* the running maximum of the drawdown
new_max_drawdown_assigned(previous, current) == current
new_max_drawdown(previous, current) == Max(previous, current)

\* the drawdown block of monitor_performance: skipped while no trade is
\* recorded; the division raises when the peak is zero
update_drawdown(metrics, balance) ==
    LET current_equity == Sum(balance)
        peak == peak_equity(metrics, current_equity)
        current_drawdown == drawdown(peak, current_equity)
    IN IF metrics.total_trades > 0
       THEN IF peak = 0
            THEN [err |-> "InvalidOperation", metrics |-> metrics]
            ELSE [err |-> "",
                  metrics |-> [metrics EXCEPT
                      !.current_drawdown = current_drawdown,
                      !.max_drawdown = new_max_drawdown(@, current_drawdown)]]
       ELSE [err |-> "", metrics |-> metrics]

\* the balance reaches the monitor: the drawdown is updated, the metrics are
\* written to performance_metrics.json and the task sleeps
MonitorBalance(out) ==
    LET updated == update_drawdown(performance_metrics, out.balance) IN
    /\ pc[Monitor] = "Balance"
    /\ IF out.kind # "ok"
       THEN /\ pc' = [pc EXCEPT ![Monitor] = "raised"]
            /\ loc' = [loc EXCEPT ![Monitor].err = out.kind]
            /\ UNCHANGED monVars
       ELSE /\ equities' = Append(equities, Sum(out.balance))
            /\ performance_metrics' = updated.metrics
            /\ pc' = [pc EXCEPT ![Monitor] =
                         IF updated.err # "" THEN "raised" ELSE "sleeping"]
            /\ loc' = [loc EXCEPT ![Monitor].balance = Some(out.balance),
                                  ![Monitor].err = updated.err]
    /\ UNCHANGED <<netVars, active_trades, price_cache, feedVars, botVars,
                   runnerVars>>

\* the monitor's steps while the requests the bot posts are bounded
CappedMonitorPerformance == (running => BotCanPost) /\ MonitorPerformance
CappedMonitorPositions(out) ==
    (out.kind = "ok" => BotCanPost) /\ MonitorPositions(out)

Init ==
    /\ now = 0
    /\ sent = <<>>
    /\ nextTxid = 1
    /\ active_trades = <<>>
    /\ price_cache = [p \in active_pairs |-> None]
    /\ kraken_running = FALSE
    /\ ws = "None"
    /\ wsPc = "idle"
    /\ subs = <<>>
    /\ message = NoMessage
    /\ received = 0
    /\ slept = 0
    /\ failures = 0
    /\ pc = [p \in Procs |-> "idle"]
    /\ loc = [p \in Procs |-> Blank]
    /\ running = FALSE
    /\ strategies = <<>>
    /\ last_analysis = [p \in active_pairs |-> None]
    /\ runPc = "idle"
    /\ performance_metrics = ZeroMetrics
    /\ equities = <<>>
    /\ should_stop = FALSE
    /\ startPc = "idle"
    /\ retry_count = 0
    /\ waits = <<>>
    /\ bots = 0

FeedNext ==
    \/ StartWebsocket
    \/ WsConnect
    \/ WsConnectFail
    \/ WsSubscribeTicker
    \/ WsSubscribeTrade
    \/ \E m \in Frames : WsRecv(m)
    \/ WsConnectionLost
    \/ WsClosedError
    \/ WsWake
    \/ close

FeedSpec == Init /\ [][FeedNext]_vars

\* the event loop resumes the streamer whenever what it awaits has completed
FeedFairness ==
    /\ WF_vars(WsConnect)
    /\ WF_vars(WsSubscribeTicker)
    /\ WF_vars(WsSubscribeTrade)
    /\ WF_vars(WsClosedError)
    /\ WF_vars(WsWake)
FairFeedSpec == FeedSpec /\ FeedFairness

\* the arguments callers give place_order: the repository's callers place
\* market orders and give no price
PlaceOrderArgs ==
    {[pair |-> "XBT/USD", order_type |-> t[1], side |-> s, volume |-> 1000,
      price |-> t[2], leverage |-> l] :
        t \in {<<"market", None>>, <<"market", Some(2000)>>,
                <<"limit", Some(2000)>>},
        s \in {"buy", "sell"},
        l \in {max_leverage, max_leverage + 1}}

\* the frames the gateway's operations are checked with
GatewayFrames == {Frame("ticker", "XBT/USD", 2000), Frame("trade", "XBT/USD", 0)}

\* the gateway's operations called by one caller; the clock, which only
\* feeds the nonce, advances in ConcurrentSpec and Spec
GatewayNext ==
    \/ \E c \in {Caller}, a \in PlaceOrderArgs :
          CallPlaceOrder(c, a.pair, a.order_type, a.side, a.volume, a.price,
                         a.leverage)
    \/ \E c \in {Caller}, out \in Outcomes("AddOrder") : PlaceOrderResume(c, out)
    \/ \E c \in {Caller}, r \in Risks : CallPositionSize(c, "XBT/USD", r)
    \/ \E c \in {Caller}, out \in Outcomes("Balance") : PositionSizeResume(c, out)
    \/ \E c \in {Caller}, cfg \in StrategyConfigs :
          CallExecuteStrategy(c, "XBT/USD", cfg)
    \/ \E c \in {Caller}, out \in Outcomes("OHLC") : ExecuteStrategyAnalysed(c, out)
    \/ \E c \in {Caller}, out \in Outcomes("Balance") : ExecuteStrategySized(c, out)
    \/ \E m \in GatewayFrames : HandleWebsocketData(m)

GatewaySpec == Init /\ [][GatewayNext]_vars

\* the strategy logic on every trend label and on the RSI values at, next to
\* and between its thresholds, NaN included
Trends == {"bullish", "bearish"}
SignalRsis ==
    {None} \cup {Some(x) : x \in {0, 29999, 30000, 30001, 50000, 69999, 70000,
                                  70001, 100000}}
SignalInit ==
    \E cfg \in StrategyConfigs, trend \in Trends, rsi \in SignalRsis :
        /\ now = 0
        /\ sent = <<>>
        /\ nextTxid = 1
        /\ active_trades = <<>>
        /\ price_cache = [p \in active_pairs |-> None]
        /\ kraken_running = FALSE
        /\ ws = "None"
        /\ wsPc = "idle"
        /\ subs = <<>>
        /\ message = NoMessage
        /\ received = 0
        /\ slept = 0
        /\ failures = 0
        /\ pc = [p \in Procs |-> IF p = Caller THEN "analysed" ELSE "idle"]
        /\ loc = [p \in Procs |->
                    IF p = Caller
                    THEN [Blank EXCEPT !.op = "execute_strategy",
                                       !.pair = "XBT/USD", !.cfg = cfg,
                                       !.analysis = Some([trend |-> trend,
                                                          rsi |-> rsi])]
                    ELSE Blank]
        /\ running = FALSE
        /\ strategies = <<>>
        /\ last_analysis = [p \in active_pairs |-> None]
        /\ runPc = "idle"
        /\ performance_metrics = ZeroMetrics
        /\ equities = <<>>
        /\ should_stop = FALSE
        /\ startPc = "idle"
        /\ retry_count = 0
        /\ waits = <<>>
        /\ bots = 0

SignalNext == \E c \in {Caller} : StrategyLogic(c)

SignalSpec == SignalInit /\ [][SignalNext]_vars

\* two coroutines that size a position concurrently, as two strategy loops
\* do, while the wall clock advances
ConcurrentNext ==
    \/ Tick
    \/ \E c \in Callers, r \in Risks : CallPositionSize(c, "XBT/USD", r)
    \/ \E c \in Callers, out \in Outcomes("Balance") : PositionSizeResume(c, out)

ConcurrentSpec == Init /\ [][ConcurrentNext]_vars

\* TradingBotRunner.handle_shutdown, run by the event loop between two steps
\* of the coroutines once the runner has constructed the bot
HandleShutdown ==
    /\ runPc # "idle" \/ startPc # "idle"
    /\ should_stop' = TRUE
    /\ running' = FALSE
    /\ UNCHANGED <<netVars, active_trades, price_cache, feedVars, procVars,
                   strategies, last_analysis, runPc, monVars, startPc,
                   retry_count, waits, bots>>

\* ------------------------------------------------------------- the runner
max_retries == 3
RetryWait == 60

\* self.bot = TradingBot() and bot.run() up to its first suspension: a new
\* bot with a new gateway, whose initialize loads the strategies and awaits
\* start_websocket
NewBotRuns ==
    /\ bots' = bots + 1
    /\ active_trades' = <<>>
    /\ price_cache' = [p \in active_pairs |-> None]
    /\ kraken_running' = TRUE
    /\ ws' = "None"
    /\ wsPc' = "connecting"
    /\ subs' = <<>>
    /\ message' = NoMessage
    /\ received' = 0
    /\ slept' = 0
    /\ failures' = 0
    /\ running' = FALSE
    /\ strategies' = predefined_strategies
    /\ last_analysis' = [p \in active_pairs |-> None]
    /\ runPc' = "start_websocket"
    /\ performance_metrics' = ZeroMetrics
    /\ equities' = <<>>
    /\ UNCHANGED <<netVars, procVars>>

\* the finally block of start, on the bot whose run has ended:
\* save_final_state, then KrakenAPI.close
StartFinally ==
    /\ kraken_running' = FALSE
    /\ ws' = IF ws = "None" THEN ws ELSE "closed"
    /\ UNCHANGED <<netVars, active_trades, price_cache, wsPc, subs, message,
                   received, slept, failures, procVars, botVars, monVars, bots>>

\* the test of the while loop of start and, when it holds, the try block up
\* to await self.bot.run()
StartLoop ==
    IF should_stop \/ retry_count >= max_retries
    THEN startPc' = "returned" /\ StartFinally
    ELSE startPc' = "run" /\ NewBotRuns

\* start is called
Start ==
    /\ startPc = "idle"
    /\ runPc = "idle"
    /\ StartLoop
    /\ UNCHANGED <<should_stop, retry_count, waits>>

\* bot.run() has ended.  When it raised: the except clause counts the failure
\* and either sleeps 60 * retry_count seconds or breaks, which leaves start
\* through the finally block.  When it returned: the finally block, then the
\* loop again
StartResume_waits_always ==
    /\ startPc = "run"
    /\ runPc = "raised"
    /\ retry_count' = retry_count + 1
    /\ startPc' = "wait"
    /\ waits' = Append(waits, RetryWait * (retry_count + 1))
    /\ UNCHANGED <<netVars, active_trades, price_cache, feedVars,
                   procVars, botVars, monVars, bots>>
    /\ UNCHANGED should_stop
StartResume ==
    /\ startPc = "run"
    /\ IF runPc = "raised"
       THEN /\ retry_count' = retry_count + 1
            /\ IF retry_count + 1 < max_retries
               THEN /\ startPc' = "wait"
                    /\ waits' = Append(waits, RetryWait * (retry_count + 1))
                    /\ UNCHANGED <<netVars, active_trades, price_cache, feedVars,
                                   procVars, botVars, monVars, bots>>
               ELSE /\ startPc' = "returned"
                    /\ waits' = waits
                    /\ StartFinally
       ELSE /\ runPc = "returned"
            /\ StartLoop
            /\ UNCHANGED <<retry_count, waits>>
    /\ UNCHANGED should_stop

\* the sleep before a retry is over: the finally block, then the loop again
StartWake ==
    /\ startPc = "wait"
    /\ StartLoop
    /\ UNCHANGED <<should_stop, retry_count, waits>>

\* the bot from its construction until run has created its tasks; close is
\* the gateway's public method, called here by the bot's environment
Next ==
    \/ RunStart
    \/ WsConnect
    \/ WsConnectFail
    \/ WsSubscribeTicker
    \/ WsSubscribeTrade
    \/ \E m \in Frames : WsRecv(m)
    \/ WsConnectionLost
    \/ WsClosedError
    \/ WsWake
    \/ close
    \/ Tick
    \/ HandleShutdown
    \/ InitializeBalance
    \/ \E out \in BotOutcomes("Balance"), saved \in MetricsFiles :
          InitializeResume(out, saved)

Spec == Init /\ [][Next]_vars

\* the event loop resumes run and the streamer whenever what they await has
\* completed
FairSpec ==
    /\ Spec
    /\ FeedFairness
    /\ WF_vars(RunStart)
    /\ WF_vars(InitializeBalance)
    /\ WF_vars(\E out \in BotOutcomes("Balance"), saved \in MetricsFiles :
          InitializeResume(out, saved))

\* the runner with bots whose initialize fails: the balance request fails
\* once the streamer has returned
RunnerFrames ==
    {Frame("ticker", "XBT/USD", x) : x \in FeedPrices} \cup {Frame("badjson", "", 0)}
RunnerOutcomes == {Failure("TransportError")}
RunnerNext ==
    \/ Start
    \/ WsConnect
    \/ WsConnectFail
    \/ WsSubscribeTicker
    \/ WsSubscribeTrade
    \/ \E m \in RunnerFrames : WsRecv(m)
    \/ WsConnectionLost
    \/ WsClosedError
    \/ WsWake
    \/ close
    \/ HandleShutdown
    \/ InitializeBalance
    \/ \E out \in RunnerOutcomes, saved \in MetricsFiles :
          InitializeResume(out, saved)
    \/ StartResume
    \/ StartWake

RunnerSpec == Init /\ [][RunnerNext]_vars

\* the event loop resumes start, run and the streamer whenever what they
\* await has completed
FairRunnerSpec ==
    /\ RunnerSpec
    /\ FeedFairness
    /\ WF_vars(Start)
    /\ WF_vars(InitializeBalance)
    /\ WF_vars(\E out \in RunnerOutcomes, saved \in MetricsFiles :
          InitializeResume(out, saved))
    /\ WF_vars(StartResume)
    /\ WF_vars(StartWake)

\* the state in which run has created its tasks: the streamer was stopped by
\* close as soon as it had subscribed, and the balance was returned
CycleSent == <<[endpoint |-> "Balance", nonce |-> 0, data |-> NoData]>>
Started(metrics) ==
    /\ now = 0
    /\ sent = CycleSent
    /\ nextTxid = 1
    /\ active_trades = <<>>
    /\ price_cache = [p \in active_pairs |-> None]
    /\ kraken_running = FALSE
    /\ ws = "closed"
    /\ wsPc = "returned"
    /\ subs = <<subscribe("ticker"), subscribe("trade")>>
    /\ message = NoMessage
    /\ received = 0
    /\ slept = 0
    /\ failures = 0
    /\ pc = [p \in Procs |-> IF p \in BotTasks THEN "new" ELSE "idle"]
    /\ loc = [p \in Procs |-> Blank]
    /\ running = TRUE
    /\ strategies = predefined_strategies
    /\ last_analysis = [p \in active_pairs |-> None]
    /\ runPc = "gather"
    /\ performance_metrics = metrics
    /\ equities = <<>>
    /\ should_stop = FALSE
    /\ startPc = "idle"
    /\ retry_count = 0
    /\ waits = <<>>
    /\ bots = 0
CycleInit == Started(ZeroMetrics)

\* the bot's tasks from their creation on
CycleNext ==
    \/ \E t \in Tasks : RunStrategy(t)
    \/ \E t \in Tasks, out \in BotOutcomes("OHLC") : RunStrategyAnalysed(t, out)
    \/ \E t \in Tasks, out \in BotOutcomes("Balance") : RunStrategySized(t, out)
    \/ CappedMonitorPerformance
    \/ \E out \in BotOutcomes("OpenPositions") : CappedMonitorPositions(out)
    \/ \E out \in BotOutcomes("Balance") : MonitorBalance(out)
    \/ Gather

CycleSpec == CycleInit /\ [][CycleNext]_vars

\* the equities the monitor is checked with
MonitorBalances == {<<0, 0>>, <<10000000>>, <<9000000>>, <<6000000, 3500000>>}
MonitorOutcomes(endpoint) ==
    {Failure("TransportError")}
    \cup IF endpoint = "Balance"
         THEN {[kind |-> "ok", balance |-> b, candles |-> <<>>] : b \in MonitorBalances}
         ELSE {[kind |-> "ok", balance |-> <<>>, candles |-> <<>>]}

\* the monitor alone, from the creation of the tasks on, with the metrics
\* initialize may have loaded
MonitorInit == \E saved \in MetricsFiles : Started(load_metrics(ZeroMetrics, saved))
MonitorNext ==
    \/ MonitorPerformance
    \/ \E out \in MonitorOutcomes("OpenPositions") : MonitorPositions(out)
    \/ \E out \in MonitorOutcomes("Balance") : MonitorBalance(out)
    \/ Gather

MonitorSpec == MonitorInit /\ [][MonitorNext]_vars

\* Spec reaches the state CycleSpec starts in
TasksCreated == CycleInit

\* ----------------------------------------------------------------- claims
Orders == {i \in 1..Len(sent) : sent[i].endpoint = "AddOrder"}
PlacesOrders(p) == loc[p].op \in {"place_order", "execute_strategy", "run_strategy"}

\* C1: when the feed stays connected and frames keep arriving, initialize
\* completes: running becomes True and every strategy loop and the monitor
\* are created, while the streamer is still receiving on its open connection
C1_FeedConnected == ws = "open" /\ kraken_running
C1_FeedStreams == []<><<\E m \in Frames : WsRecv(m)>>_vars
C1_Cycling == running /\ \A p \in BotTasks : pc[p] # "idle"
C1_BotStartsWhileFeedStreams ==
    (<>[]C1_FeedConnected /\ C1_FeedStreams) => <>(C1_Cycling /\ C1_FeedConnected)

\* C2: a cycle whose signal was validated and whose size was computed has
\* asked for the candles, then for the balance, then posted one AddOrder
\* request
C2_Validated(t) ==
    /\ loc[t].op = "run_strategy"
    /\ loc[t].status = "validated"
    /\ loc[t].size # None
C2_ValidatedSignalIsSubmitted ==
    \A t \in Tasks :
        C2_Validated(t) =>
            /\ loc[t].reqs = <<"OHLC", "Balance", "AddOrder">>
            /\ \E i \in Orders : /\ sent[i].data.pair = loc[t].pair
                                 /\ sent[i].data.type = loc[t].side

\* C4: the signed requests carry strictly increasing nonces, in signing
\* order, also when two coroutines sign concurrently
C4_NoncesStrictlyIncrease ==
    \A i, j \in 1..Len(sent) : i < j => sent[i].nonce < sent[j].nonce

\* C11: with a trade recorded, after the monitor has observed the positive
\* equities e1..en the current drawdown is (peak - en) / peak for the peak
\* max(e1..en), and the maximum drawdown is at least every drawdown so computed
Peak(es) == CHOOSE e \in {es[i] : i \in 1..Len(es)} : \A i \in 1..Len(es) : es[i] <= e
DrawdownOf(es) == DecDiv(Peak(es) - es[Len(es)], Peak(es))
C11_DrawdownFollowsPeak ==
    (/\ performance_metrics.total_trades > 0
     /\ equities # <<>>
     /\ \A i \in 1..Len(equities) : equities[i] > 0) =>
        /\ performance_metrics.current_drawdown = DrawdownOf(equities)
        /\ \A n \in 1..Len(equities) :
              performance_metrics.max_drawdown >= DrawdownOf(SubSeq(equities, 1, n))

\* C12: the current drawdown is never negative and never above the maximum
\* drawdown, and no step lowers the maximum drawdown
C12_State ==
    /\ 0 <= performance_metrics.current_drawdown
    /\ performance_metrics.current_drawdown <= performance_metrics.max_drawdown
C12_Step == performance_metrics'.max_drawdown >= performance_metrics.max_drawdown
C12_DrawdownWithinMax == []C12_State /\ [][C12_Step]_vars
C12_Witness ==
    /\ performance_metrics.total_trades > 0
    /\ Len(equities) >= 2
    /\ equities[Len(equities)] < equities[1]
    /\ performance_metrics.max_drawdown > 0
    /\ pc[Monitor] = "sleeping"

\* C13: a strategy loop in whose cycle a step has failed (the candle fetch,
\* the analysis, the balance query or the order placement) has terminated by
\* raising the error; from then on it starts no cycle and sends no request
C13_State ==
    \A t \in Tasks : loc[t].err # "" => pc[t] = "raised"
C13_Step ==
    \A t \in Tasks :
        pc[t] = "raised" =>
            /\ pc'[t] = "raised"
            /\ loc'[t] = loc[t]
            /\ (sent' # sent => \E u \in BotTasks \ {t} : pc'[u] # pc[u])
C13_FailedLoopTerminates == []C13_State /\ [][C13_Step]_vars
C13_Witness ==
    \E t \in Tasks :
        /\ pc[t] = "raised"
        /\ loc[t].err = "TransportError"
        /\ loc[t].reqs = <<"OHLC", "Balance">>
        /\ runPc = "raised"

\* C14: once a shutdown has been handled, running is False and stays False:
\* no later step of the bot sets it back to True
C14_StopIsNeverUndone == should_stop => ~running

\* C15: after close() has been called, whatever the streamer was doing
\* (connecting, waiting for a frame, sleeping before a reconnect), the
\* connection is closed, no step of the streamer opens a connection, and the
\* streamer returns when its current reconnect delay, if any, has elapsed.
C15_Closed == ~kraken_running /\ wsPc # "idle"
C15_Step ==
    /\ (kraken_running /\ ~kraken_running') => ws' # "open"
    /\ C15_Closed => ws' # "open"
    /\ (C15_Closed /\ wsPc = "sleeping" /\ wsPc' # wsPc) => wsPc' = "returned"
C15_CloseStopsStreamer == [][C15_Step]_vars

\* C16: an entry enters the active-trade table only when the exchange has
\* acknowledged an order, under the order id the acknowledgement returns; a
\* place_order call that fails (leverage rejection, transport error, exchange
\* error) leaves the table unchanged; no step removes or rewrites an entry.
C16_State ==
    /\ Cardinality(DOMAIN active_trades) <= Cardinality(Orders)
    /\ \A k \in DOMAIN active_trades : k < nextTxid
C16_Step ==
    /\ \A k \in DOMAIN active_trades :
          k \in DOMAIN active_trades' /\ active_trades'[k] = active_trades[k]
    /\ active_trades' # active_trades =>
          \E p \in Procs :
              /\ pc[p] = "AddOrder" /\ pc'[p] = "returned"
              /\ DOMAIN active_trades' = DOMAIN active_trades \cup {loc'[p].result[1]}
              /\ loc'[p].result[1] \notin DOMAIN active_trades
              /\ active_trades'[loc'[p].result[1]].pair = loc[p].pair
    /\ \A p \in Procs :
          (loc'[p] # loc[p] /\ pc'[p] = "raised") => active_trades' = active_trades
C16_TradesOnlyAdded == []C16_State /\ [][C16_Step]_vars
C16_Witness ==
    /\ Cardinality(DOMAIN active_trades) = 1
    /\ Cardinality(Orders) = 2
    /\ loc[Caller].op = "place_order"
    /\ pc[Caller] = "raised"
    /\ loc[Caller].err = "KrakenAPIError"

\* C17: a private request posts exactly one HTTP request; when the reply is a
\* transport error, an HTTP error status or an exchange error payload the call
\* raises to its caller with no result, and nothing more is posted for it.
Endpoints == {"Balance", "OHLC", "AddOrder"}
C17_State ==
    \A p \in Procs :
        /\ Len(loc[p].reqs) <= Len(sent)
        /\ \A i \in 1..Len(loc[p].reqs) :
              sent[Len(sent) - Len(loc[p].reqs) + i].endpoint = loc[p].reqs[i]
        /\ loc[p].err \in HttpErrors =>
              /\ pc[p] = "raised"
              /\ loc[p].result = None
              /\ loc[p].reqs # <<>>
C17_Step ==
    /\ Len(sent') <= Len(sent) + 1
    /\ \A p \in Procs :
          /\ (pc[p] \in Endpoints /\ pc'[p] = pc[p]) => sent' = sent
          /\ (loc'[p].err \in HttpErrors /\ loc'[p] # loc[p]) =>
                /\ pc[p] \in Endpoints
                /\ pc'[p] = "raised"
                /\ sent' = sent
                /\ loc'[p].reqs = loc[p].reqs
C17_OneRequestNoRetry == []C17_State /\ [][C17_Step]_vars
C17_Witness ==
    /\ pc[Caller] = "raised"
    /\ loc[Caller].op = "calculate_optimal_position_size"
    /\ loc[Caller].err = "HTTPStatusError"
    /\ loc[Caller].reqs = <<"Balance">>
    /\ Len(sent) = 1

\* C18: the delivery of a well-formed ticker frame sets the quote of its
\* instrument to the frame's price and volume and leaves the other quotes
\* unchanged; the delivery of any other frame, and every other step, leaves
\* every quote unchanged.  So each quote is the one of the last well-formed
\* ticker frame delivered for its instrument.
C18_Step ==
    /\ \A m \in Frames : WsRecv(m) =>
          /\ m.kind = "ticker" =>
                /\ price_cache'[m.pair] = Some(Quote(m.price, FeedVolume))
                /\ \A p \in active_pairs \ {m.pair} :
                      price_cache'[p] = price_cache[p]
          /\ m.kind # "ticker" => price_cache' = price_cache
    /\ (~ \E m \in Frames : WsRecv(m)) => price_cache' = price_cache
C18_LastTickerWins == [][C18_Step]_vars
C18_Witness ==
    /\ received = MaxFrames
    /\ message.kind = "trade"
    /\ price_cache[message.pair] = Some(Quote(2000, FeedVolume))
    /\ \E p \in active_pairs \ {message.pair} :
          price_cache[p] = Some(Quote(1000, FeedVolume))

\* C19: the strategy logic gives at most one signal, by the rule table:
\* trend_following buys when the trend is bullish and RSI < 70, else sells
\* when the trend is bearish and RSI > 30; mean_reversion buys when RSI < 30,
\* else sells when RSI > 70; in every other case there is no signal.
C19_Buy(type, a) ==
    \/ type = "trend_following" /\ a.trend = "bullish"
          /\ a.rsi # None /\ a.rsi[1] < 70 * Unit
    \/ type = "mean_reversion" /\ a.rsi # None /\ a.rsi[1] < 30 * Unit
C19_Sell(type, a) ==
    \/ type = "trend_following" /\ a.trend = "bearish"
          /\ a.rsi # None /\ a.rsi[1] > 30 * Unit
    \/ type = "mean_reversion" /\ a.rsi # None /\ a.rsi[1] > 70 * Unit
C19_SignalFollowsRuleTable ==
    \A p \in Procs : pc[p] = "signalled" =>
        loc[p].signal = IF C19_Buy(loc[p].cfg.type, loc[p].analysis[1])
                        THEN Some("buy")
                        ELSE IF C19_Sell(loc[p].cfg.type, loc[p].analysis[1])
                        THEN Some("sell")
                        ELSE None
C19_Witness ==
    /\ pc[Caller] = "signalled"
    /\ loc[Caller].cfg.type = "trend_following"
    /\ loc[Caller].analysis = Some([trend |-> "bearish", rsi |-> Some(30001)])
    /\ loc[Caller].signal = Some("sell")

\* C20: the validation hook returns True for every pair, signal and analysis,
\* so a cycle that generated a signal always goes on to size the position
C20_State ==
    /\ \A pair \in active_pairs, signal \in {Some("buy"), Some("sell")},
          trend \in Trends, rsi \in SignalRsis :
            validate_signal_with_ai(pair, signal, [trend |-> trend, rsi |-> rsi])
    /\ \A t \in Tasks :
          (loc[t].analysis # None /\ loc[t].signal # None) =>
              /\ loc[t].status = "validated"
              /\ "Balance" \in {loc[t].reqs[i] : i \in 1..Len(loc[t].reqs)}
C20_Step ==
    \A t \in Tasks :
        (pc[t] = "OHLC" /\ loc'[t].signal # None) => pc'[t] = "Balance"
C21_State ==
    /\ bots <= 3
    /\ retry_count <= bots
    /\ Len(waits) = (IF retry_count < 3 THEN retry_count ELSE 2)
    /\ \A k \in 1..Len(waits) : waits[k] = 60 * k
    /\ retry_count = 3 => startPc = "returned"
    /\ startPc = "wait" => (retry_count \in 1..2 /\ runPc = "raised")
C21_Step ==
    /\ bots' \in {bots, bots + 1}
    /\ bots' = bots + 1 => (retry_count < 3 /\ startPc' = "run" /\ waits' = waits)
    /\ retry_count' # retry_count =>
          /\ retry_count' = retry_count + 1
          /\ runPc = "raised"
          /\ bots' = bots
          /\ IF retry_count' < 3
             THEN startPc' = "wait" /\ waits' = Append(waits, 60 * retry_count')
             ELSE startPc' = "returned" /\ waits' = waits
    /\ startPc = "returned" => UNCHANGED <<startPc, retry_count, waits, bots>>
C21_BoundedRestarts == []C21_State /\ [][C21_Step]_vars
C21_Witness ==
    /\ startPc = "returned"
    /\ ~should_stop
    /\ retry_count = 3
    /\ bots = 3
    /\ waits = <<60, 120>>
    /\ Len(sent) = 3

\* C22: once a shutdown signal has been handled, start constructs no new bot
\* and eventually returns, also when the bot is still inside initialize and
\* the feed keeps delivering frames.
C22_NoNewBot == should_stop => bots' = bots
C22_ShutdownReturns ==
    /\ [][C22_NoNewBot]_vars
    /\ C1_FeedStreams => (should_stop ~> startPc = "returned")

\* C23: run raises to its caller only when a strategy loop or the monitor has
\* raised; when it has, running is False and the gateway is closed, and from
\* then on a loop of the bot that tests running returns instead of starting
\* a cycle, for every pair and strategy and for the monitor.
C23_State ==
    runPc = "raised" =>
        /\ \E p \in BotTasks : pc[p] = "raised"
        /\ ~running
        /\ ~kraken_running
        /\ ws # "open"
C23_Step ==
    /\ (runPc = "gather" /\ \E p \in BotTasks : pc[p] = "raised") =>
          runPc' \in {"gather", "raised"}
    /\ runPc = "raised" =>
          /\ runPc' = "raised"
          /\ \A p \in BotTasks :
                (pc[p] \in {"new", "sleeping"} /\ pc'[p] # pc[p]) =>
                    /\ pc'[p] = "returned"
                    /\ sent' = sent
C23_FailurePropagatesAndStops == []C23_State /\ [][C23_Step]_vars
C23_Witness ==
    /\ runPc = "raised"
    /\ pc[Monitor] = "raised"
    /\ \E t \in Tasks : pc[t] = "returned"
    /\ \E t \in Tasks : pc[t] = "sleeping"

\* C24: when the analysis of an execute_strategy call returns and the price
\* cache has no quote for the pair, the call fails with an error, posts no
\* balance and no order request and leaves the active-trade table unchanged;
\* so a call that went on to size or place an order had a quote for its pair.
C24_State ==
    \A p \in Procs :
        (loc[p].op = "execute_strategy" /\ Len(loc[p].reqs) > 1) =>
            price_cache[loc[p].pair] # None
C24_Step ==
    \A p \in Procs :
        (/\ loc[p].op = "execute_strategy"
         /\ pc[p] = "OHLC"
         /\ pc'[p] # "OHLC"
         /\ price_cache[loc[p].pair] = None) =>
            /\ pc'[p] = "raised"
            /\ loc'[p].err # ""
            /\ loc'[p].analysis # None => loc'[p].err = "ValueError"
            /\ loc'[p].reqs = <<"OHLC">>
            /\ sent' = sent
            /\ active_trades' = active_trades
C24_NoQuoteNoOrder == []C24_State /\ [][C24_Step]_vars
C24_Witness ==
    /\ loc[Caller].op = "execute_strategy"
    /\ pc[Caller] = "raised"
    /\ loc[Caller].err = "ValueError"
    /\ loc[Caller].analysis # None
    /\ strategy_signal(loc[Caller].cfg.type, loc[Caller].analysis[1]) # None
    /\ loc[Caller].reqs = <<"OHLC">>
    /\ price_cache[loc[Caller].pair] = None
    /\ Len(sent) = 1

\* C3: a place_order call whose leverage is above the maximum fails before any
\* request is posted and leaves the active-trade table as it was, so no order
\* request posted carries a leverage above the maximum.
C3_Rejected(p) ==
    /\ PlacesOrders(p)
    /\ loc[p].leverage > max_leverage
C3_State ==
    /\ \A i \in Orders : sent[i].data.leverage <= max_leverage
    /\ \A p \in Procs : C3_Rejected(p) =>
          /\ pc[p] = "raised"
          /\ loc[p].err = "ValueError"
          /\ "AddOrder" \notin {loc[p].reqs[i] : i \in 1..Len(loc[p].reqs)}
C3_Step ==
    \A p \in Procs :
        (C3_Rejected(p)' /\ loc'[p] # loc[p]) =>
            /\ sent' = sent
            /\ active_trades' = active_trades
C3_LeverageAboveMaxRejected == []C3_State /\ [][C3_Step]_vars
C3_Witness ==
    \E p \in Procs :
        /\ C3_Rejected(p)
        /\ pc[p] = "raised"
        /\ Orders # {}
        /\ DOMAIN active_trades # {}

\* C7: when the candles returned are fewer than the window of the long moving
\* average (50), analysis fails with an insufficient-data error: the strategy
\* logic derives no signal from that result and the cycle requests nothing
\* more (no balance, no order).
C7_ShortCandlesGiveNoSignal ==
    \A p \in Procs :
        (loc[p].op = "execute_strategy" /\ loc[p].candles # None
         /\ loc[p].candles[1] < SMA_long) =>
            /\ loc[p].signal = None
            /\ loc[p].reqs = <<"OHLC">>

\* C8: for an equity above 0 (the sum of the balances) and a risk per trade in
\* (0, 1], the size returned is min(equity * 0.1, equity * risk / 0.02), is
\* above 0 and is at most either bound.
C8_Sized(p) ==
    /\ loc[p].op = "calculate_optimal_position_size"
    /\ pc[p] = "returned"
    /\ Sum(loc[p].balance[1]) > 0
    /\ loc[p].risk > 0
    /\ loc[p].risk <= Unit
C8_PositionSizeIsMin ==
    \A p \in Procs : C8_Sized(p) =>
        LET equity == Sum(loc[p].balance[1])
            by_fraction == equity \div 10
            by_risk == (equity \div 20) * loc[p].risk
            size == loc[p].size[1]
        IN /\ size = (IF by_fraction <= by_risk THEN by_fraction ELSE by_risk)
           /\ size > 0
           /\ size <= by_fraction
           /\ size <= by_risk
C8_Witness ==
    \E p \in Procs :
        /\ C8_Sized(p)
        /\ loc[p].balance[1] = <<600000, 400000>>
        /\ loc[p].risk = 1
        /\ loc[p].size[1] = 50000

\* C9: when the equity is zero or negative, or the size computed is not
\* positive, position sizing fails instead of returning a size, so no order
\* with a volume that is not positive is posted.
C9_NonPositiveSizeFails ==
    /\ \A p \in Procs :
          (loc[p].balance # None /\ Sum(loc[p].balance[1]) <= 0) =>
              /\ pc[p] = "raised"
              /\ loc[p].size = None
    /\ \A p \in Procs : loc[p].size # None => loc[p].size[1] > 0
    /\ \A i \in Orders : sent[i].data.volume[1] > 0

\* C10: every order request posted and every entry of the active-trade table
\* has its protective prices around the entry price on the side of the order:
\* stop_loss < price < take_profit for a buy, take_profit < price < stop_loss
\* for a sell.
Bracketed(side, price, stop_loss, take_profit) ==
    IF side = "buy"
    THEN stop_loss < price /\ price < take_profit
    ELSE take_profit < price /\ price < stop_loss
C10_State ==
    /\ \A k \in DOMAIN active_trades :
          LET t == active_trades[k]
          IN /\ t.price # None
             /\ Bracketed(t.side, t.price[1], t.stop_loss, t.take_profit)
    /\ \A i \in Orders :
          LET d == sent[i].data
          IN d.price # None =>
                Bracketed(d.type, d.price[1], d.close_price[1], d.close_price2[1])
C10_Step ==
    (Len(sent') = Len(sent) + 1 /\ sent'[Len(sent')].endpoint = "AddOrder") =>
        \E p \in Procs :
            LET d == sent'[Len(sent')].data
            IN /\ pc'[p] = "AddOrder" /\ pc[p] # "AddOrder"
               /\ d.type = loc'[p].side
               /\ loc'[p].price # None
               /\ Bracketed(d.type, loc'[p].price[1], d.close_price[1],
                            d.close_price2[1])
C10_ProtectivePricesBracketEntry == []C10_State /\ [][C10_Step]_vars
C10_Witness ==
    \E j, k \in DOMAIN active_trades :
        /\ active_trades[j].side = "buy"
        /\ active_trades[k].side = "sell"
        /\ active_trades[k].type = "market"

\* C5: a malformed or partial frame (not JSON, an array of too few elements, a
\* ticker whose price or volume is missing or not a number) drops only that
\* message: the connection stays open, no reconnect delay is incurred, the
\* price cache is unchanged and the streamer goes on to receive the next frame.
C5_MalformedFrameOnlyDropped ==
    [][(received' = received + 1 /\ Malformed(message')) =>
          /\ ws' = "open"
          /\ wsPc' = "recv"
          /\ price_cache' = price_cache
          /\ slept' = slept]_vars

\* C6: whenever the connection fails while streaming is running, the streamer
\* sleeps the fixed delay, connects again and sends the ticker and the trade
\* subscription for all pairs before it receives a frame; updates of the price
\* cache resume, and no failure ends the streaming loop.
C6_State ==
    /\ wsPc = "recv" => subs = <<subscribe("ticker"), subscribe("trade")>>
    /\ \A i \in 1..Len(subs) : subs[i].pair = active_pairs
    /\ wsPc = "returned" => ~kraken_running
C6_Step ==
    /\ failures' = failures + 1 => wsPc' = "sleeping"
    /\ received' = received + 1 =>
          subs = <<subscribe("ticker"), subscribe("trade")>>
    /\ (wsPc = "sleeping" /\ wsPc' # "sleeping") =>
          /\ slept' = slept + RetryDelay
          /\ kraken_running => wsPc' = "connecting" /\ price_cache' = price_cache
    /\ (wsPc = "connecting" /\ wsPc' = "sub_ticker") => subs' = <<>> /\ ws' = "open"
C6_Live == (wsPc = "sleeping" /\ kraken_running) ~> (wsPc = "recv" \/ ~kraken_running)
C6_ReconnectsAndResubscribes == []C6_State /\ [][C6_Step]_vars /\ C6_Live
C6_Witness ==
    /\ failures = 2
    /\ slept >= 2 * RetryDelay
    /\ kraken_running
    /\ wsPc = "recv"
    /\ received = 1
    /\ message.kind = "ticker"
    /\ price_cache[message.pair] = Some(Quote(message.price, FeedVolume))

====
